---- MODULE Spec2Model ----
(***************************************************************************)
(* dir2prompt (src/main.rs): one run of main, from argument handling to    *)
(* the summary line.  Strings that the program inspects are modelled by    *)
(* what it inspects: file contents are byte sequences, decoded text is a   *)
(* sequence of code points, a path is a sequence of components (each with  *)
(* its bytes), and an override line is a sequence of tokens ("!" , " ",    *)
(* "[" and glob components, "/" standing between two components).         *)
(***************************************************************************)
EXTENDS Integers, Sequences, FiniteSets, TLC

VARIABLES
  args,            \* the parsed command line (struct Args)
  env,             \* the file system under the root, and the build's overflow checks
  pc,              \* where main is: "start", "walk", "render", "done", "failed", "panicked"
  root,            \* main's root
  overrides,       \* the compiled override lines
  pending,         \* the entries walk.build() has still to yield
  files,           \* main's files
  doc,             \* standard output: the metadata block, the listing, the segments
  diag,            \* standard error
  idx,             \* how many files the segment loop has dealt with
  loads,           \* what read_file_limited returned for each of them
  printed, skipped_binary, skipped_utf8,
  exit             \* "running", "success", "failure" (main returned Err), "panic"

vars == <<args, env, pc, root, overrides, pending, files, doc, diag, idx,
          loads, printed, skipped_binary, skipped_utf8, exit>>

(* ------------------------------ bounds -------------------------------- *)

\* longest file content, in bytes
MaxLen == 3
\* most entries in the walked tree
MaxFiles == 2
\* width of usize / u64 in the model (64 on the real targets): the cap is a
\* usize and `(max_bytes as u64) + 1` is computed in that width
UsizeBits == 3
\* 8 * 1024 in looks_binary, scaled so that a file of MaxLen bytes reaches past it
BinaryWindow == 2

UsizeMax == 2 ^ UsizeBits - 1

Min(a, b) == IF a < b THEN a ELSE b

(* ------------------------------- bytes -------------------------------- *)

NUL == 0
NL == 10
SLASH == 47
DOT == 46
REPLACEMENT == 65533

\* the bytes file contents are drawn from: NUL, '\n', 'a', and the two bytes
\* of U+00E9 (0xC3 0xA9)
ByteAlphabet == {0, 10, 97, 195, 169}

RECURSIVE SeqsUpTo(_, _)
SeqsUpTo(S, n) ==
  IF n = 0 THEN {<<>>}
  ELSE LET shorter == SeqsUpTo(S, n - 1)
       IN shorter \cup {Append(s, x) : s \in {t \in shorter : Len(t) = n - 1}, x \in S}

SubSeqFrom(s, i) == IF i > Len(s) THEN <<>> ELSE SubSeq(s, i, Len(s))
Take(s, n) == IF n <= 0 THEN <<>> ELSE SubSeq(s, 1, Min(n, Len(s)))

IsCont(x) == x >= 128 /\ x <= 191

\* UTF8_CHAR_WIDTH of the lead byte (0: not a lead byte)
Utf8Width(x) ==
  IF x < 128 THEN 1
  ELSE IF x >= 194 /\ x <= 223 THEN 2
  ELSE IF x >= 224 /\ x <= 239 THEN 3
  ELSE IF x >= 240 /\ x <= 244 THEN 4
  ELSE 0

\* the second byte a lead byte of width 3 or 4 admits
SecondOk(lead, x) ==
  IF lead = 224 THEN x >= 160 /\ x <= 191
  ELSE IF lead = 237 THEN x >= 128 /\ x <= 159
  ELSE IF lead = 240 THEN x >= 144 /\ x <= 191
  ELSE IF lead = 244 THEN x >= 128 /\ x <= 143
  ELSE IsCont(x)

\* how many bytes of b, from i on, are a well-formed prefix of one sequence
\* (the lead byte counted; a byte that is no lead byte counts as 1)
RECURSIVE GoodPrefix(_, _, _, _)
GoodPrefix(b, i, w, k) ==
  IF k >= w \/ i + k > Len(b) THEN k
  ELSE LET x == b[i + k]
           ok == IF k = 1 THEN SecondOk(b[i], x) ELSE IsCont(x)
       IN IF ok THEN GoodPrefix(b, i, w, k + 1) ELSE k

\* the scalar value of the well-formed sequence of width w at i
CodePoint(b, i, w) ==
  IF w = 1 THEN b[i]
  ELSE IF w = 2 THEN (b[i] - 192) * 64 + (b[i + 1] - 128)
  ELSE IF w = 3 THEN (b[i] - 224) * 4096 + (b[i + 1] - 128) * 64 + (b[i + 2] - 128)
  ELSE (b[i] - 240) * 262144 + (b[i + 1] - 128) * 4096
       + (b[i + 2] - 128) * 64 + (b[i + 3] - 128)

\* std::str::from_utf8(bytes).is_ok()
RECURSIVE Utf8ValidFrom(_, _)
Utf8ValidFrom(b, i) ==
  IF i > Len(b) THEN TRUE
  ELSE LET w == Utf8Width(b[i])
       IN /\ w > 0
          /\ GoodPrefix(b, i, w, 1) = w
          /\ Utf8ValidFrom(b, i + w)

from_utf8_ok(b) == Utf8ValidFrom(b, 1)

\* String::from_utf8_lossy: each well-formed sequence gives its character,
\* each maximal ill-formed prefix gives one U+FFFD
RECURSIVE LossyFrom(_, _)
LossyFrom(b, i) ==
  IF i > Len(b) THEN <<>>
  ELSE LET w == Utf8Width(b[i])
           k == IF w = 0 THEN 1 ELSE GoodPrefix(b, i, w, 1)
       IN IF w > 0 /\ k = w
          THEN <<CodePoint(b, i, w)>> \o LossyFrom(b, i + w)
          ELSE <<REPLACEMENT>> \o LossyFrom(b, i + k)

from_utf8_lossy(b) == LossyFrom(b, 1)

(* ------------------------------- paths -------------------------------- *)

\* the bytes of each file or directory name the model uses
CompBytes(c) ==
  CASE c = "a" -> <<97>>
    [] c = "b" -> <<98>>
    [] c = "x" -> <<120>>
    [] c = "a-b" -> <<97, 45, 98>>
    [] c = "Cargo.lock" -> <<67, 97, 114, 103, 111, 46, 108, 111, 99, 107>>
    [] c = "secrets" -> <<115, 101, 99, 114, 101, 116, 115>>
    [] c = ".env" -> <<46, 101, 110, 118>>
    [] c = "venv" -> <<118, 101, 110, 118>>
    [] c = "main.RS" -> <<109, 97, 105, 110, 46, 82, 83>>
    [] c = "link" -> <<108, 105, 110, 107>>
    [] c = "gone" -> <<103, 111, 110, 101>>
    [] c = "." -> <<46>>
    [] c = "srv" -> <<115, 114, 118>>
    [] c = "proj" -> <<112, 114, 111, 106>>

\* byte strings compared as Rust compares [u8] / str
RECURSIVE BytesLess(_, _)
BytesLess(s, t) ==
  IF t = <<>> THEN FALSE
  ELSE IF s = <<>> THEN TRUE
  ELSE IF Head(s) # Head(t) THEN Head(s) < Head(t)
  ELSE BytesLess(Tail(s), Tail(t))

\* what Path::display prints: the components joined by '/'
RECURSIVE PathString(_)
PathString(p) ==
  IF p = <<>> THEN <<>>
  ELSE IF Len(p) = 1 THEN CompBytes(p[1])
  ELSE CompBytes(p[1]) \o <<SLASH>> \o PathString(Tail(p))

\* Ord for PathBuf: the components compared in turn, each as its bytes
RECURSIVE PathLess(_, _)
PathLess(p, q) ==
  IF q = <<>> THEN FALSE
  ELSE IF p = <<>> THEN TRUE
  ELSE IF Head(p) # Head(q) THEN BytesLess(CompBytes(Head(p)), CompBytes(Head(q)))
  ELSE PathLess(Tail(p), Tail(q))

\* files.sort(): the unique arrangement of the pushed paths in PathBuf order
SortInsert(sorted, p) ==
  LET k == Cardinality({i \in 1..Len(sorted) : ~PathLess(p, sorted[i])})
  IN SubSeq(sorted, 1, k) \o <<p>> \o SubSeq(sorted, k + 1, Len(sorted))

RECURSIVE SortPaths(_)
SortPaths(s) ==
  IF s = <<>> THEN <<>> ELSE SortInsert(SortPaths(Tail(s)), Head(s))

IsPrefix(s, t) == Len(s) <= Len(t) /\ SubSeq(t, 1, Len(s)) = s

rel_path(r, path) == IF IsPrefix(r, path) THEN SubSeqFrom(path, Len(r) + 1) ELSE path

\* Path::extension of the file name, lowercased: the bytes after the last '.',
\* none when there is no '.' or the only one leads the name
LastDot(b) ==
  LET dots == {i \in 1..Len(b) : b[i] = DOT}
  IN IF dots = {} THEN 0 ELSE CHOOSE i \in dots : \A j \in dots : j <= i

ToAsciiLower(b) == [i \in 1..Len(b) |-> IF b[i] >= 65 /\ b[i] <= 90 THEN b[i] + 32 ELSE b[i]]

Extension(path) ==
  LET b == IF path = <<>> THEN <<>> ELSE CompBytes(path[Len(path)])
      d == LastDot(b)
  IN IF d <= 1 THEN <<>> ELSE ToAsciiLower(SubSeqFrom(b, d + 1))

language_tag(path) ==
  LET ext == Extension(path)
  IN CASE ext = <<114, 115>> -> "rust"
       [] ext = <<116, 111, 109, 108>> -> "toml"
       [] ext = <<109, 100>> -> "markdown"
       [] ext = <<116, 120, 116>> -> "text"
       [] ext = <<106, 115, 111, 110>> -> "json"
       [] ext \in {<<121, 109, 108>>, <<121, 97, 109, 108>>} -> "yaml"
       [] ext = <<106, 115>> -> "javascript"
       [] ext = <<116, 115>> -> "ts"
       [] ext = <<106, 115, 120>> -> "jsx"
       [] ext = <<116, 115, 120>> -> "tsx"
       [] ext = <<112, 121>> -> "python"
       [] ext = <<115, 104>> -> "bash"
       [] ext = <<122, 115, 104>> -> "zsh"
       [] ext = <<102, 105, 115, 104>> -> "fish"
       [] ext = <<103, 111>> -> "go"
       [] ext = <<106, 97, 118, 97>> -> "java"
       [] ext \in {<<107, 116>>, <<107, 116, 115>>} -> "kotlin"
       [] ext \in {<<99>>, <<104>>} -> "c"
       [] ext \in {<<99, 112, 112>>, <<99, 99>>, <<99, 120, 120>>} -> "cpp"
       [] ext \in {<<104, 112, 112>>, <<104, 104>>, <<104, 120, 120>>} -> "cpp"
       [] ext = <<99, 115>> -> "csharp"
       [] ext = <<115, 119, 105, 102, 116>> -> "swift"
       [] ext = <<114, 98>> -> "ruby"
       [] ext = <<112, 104, 112>> -> "php"
       [] ext = <<115, 113, 108>> -> "sql"
       [] ext = <<104, 116, 109, 108>> -> "html"
       [] ext = <<99, 115, 115>> -> "css"
       [] ext = <<115, 99, 115, 115>> -> "scss"
       [] ext = <<112, 114, 111, 116, 111>> -> "proto"
       [] ext = <<105, 110, 105>> -> "ini"
       [] ext = <<101, 110, 118>> -> "bash"
       [] OTHER -> "text"

(* -------------------------- override patterns ------------------------- *)

RECURSIVE TrimStart(_)
TrimStart(l) == IF l # <<>> /\ Head(l) = " " THEN TrimStart(Tail(l)) ELSE l

RECURSIVE TrimEnd(_)
TrimEnd(l) ==
  IF l # <<>> /\ l[Len(l)] = " " THEN TrimEnd(SubSeq(l, 1, Len(l) - 1)) ELSE l

\* str::trim
Trim(l) == TrimEnd(TrimStart(l))

StartsWithBang(l) == l # <<>> /\ Head(l) = "!"

\* OverrideBuilder::add(line): the line is parsed as a gitignore line.  A leading
\* "!" is taken off and remembered (neg); what is left is the glob, and a glob
\* with an unclosed "[" is refused.  A glob with no "/" in it may match at any
\* depth, which the builder writes as a leading "**".
EmptyBuilder == [rules |-> <<>>, err |-> <<>>]

GlobOf(text) == IF Len(text) = 1 /\ text[1] # "**" THEN <<"**">> \o text ELSE text

ob_add(ob, line) ==
  LET neg == StartsWithBang(line)
      text == IF neg THEN Tail(line) ELSE line
      glob == GlobOf(text)
  IN IF \E i \in 1..Len(text) : text[i] = "["
     THEN [ob EXCEPT !.err = <<line>>]
     ELSE [ob EXCEPT !.rules = Append(@, [neg |-> neg, glob |-> glob])]

\* add_exclude with the "!" left out: the line is registered as written
add_exclude_unprefixed(ob, pattern) ==
  IF ob.err # <<>> THEN ob ELSE ob_add(ob, Trim(pattern))

\* add_exclude; a builder that already failed stays as it is (the caller's `?`
\* has returned)
add_exclude(ob, pattern) ==
  IF ob.err # <<>> THEN ob
  ELSE LET p == Trim(pattern)
           line == IF StartsWithBang(p) THEN p ELSE <<"!">> \o p
       IN ob_add(ob, line)

\* add_include: defined in the source, called from nowhere
add_include(ob, pattern) ==
  IF ob.err # <<>> THEN ob
  ELSE LET p == Trim(pattern)
           line == IF StartsWithBang(p) THEN Tail(p) ELSE p
       IN ob_add(ob, line)

BuiltinExcludes ==
  << <<"**", ".git", "**">>, <<"**", ".hg", "**">>, <<"**", ".svn", "**">>,
     <<"**", ".venv", "**">>, <<"**", "venv", "**">>, <<"**", "__pycache__", "**">>,
     <<"**", ".mypy_cache", "**">>, <<"**", ".pytest_cache", "**">>,
     <<"**", ".ruff_cache", "**">>, <<"**", ".tox", "**">>,
     <<"**", "node_modules", "**">>, <<"**", "target", "**">>, <<"**", "dist", "**">>,
     <<"**", "build", "**">>, <<"**", ".next", "**">>, <<"**", ".nuxt", "**">>,
     <<"**", ".svelte-kit", "**">>,
     <<"**", ".DS_Store">>, <<"**", "Thumbs.db">> >>

LockfileExcludes ==
  << <<"**", "Cargo.lock">>, <<"**", "package-lock.json">>, <<"**", "yarn.lock">>,
     <<"**", "pnpm-lock.yaml">>, <<"**", "composer.lock">>, <<"**", "Gemfile.lock">>,
     <<"**", "poetry.lock">>, <<"**", "Pipfile.lock">> >>

RECURSIVE AddExcludes(_, _)
AddExcludes(ob, patterns) ==
  IF patterns = <<>> THEN ob
  ELSE AddExcludes(add_exclude(ob, Head(patterns)), Tail(patterns))

\* the line build_overrides makes of one --include value (before add_exclude)
IncludeLine(inc) == IF StartsWithBang(inc) THEN inc ELSE <<"!">> \o inc

\* build_overrides: the built-in excludes, the lockfile excludes unless
\* include_lockfiles, the user's excludes, then the user's includes, every one
\* of them through add_exclude
build_overrides(include_lockfiles, excludes, includes) ==
  LET b1 == AddExcludes(EmptyBuilder, BuiltinExcludes)
      b2 == IF ~include_lockfiles THEN AddExcludes(b1, LockfileExcludes) ELSE b1
      b3 == AddExcludes(b2, excludes)
  IN AddExcludes(b3, [i \in 1..Len(includes) |-> IncludeLine(includes[i])])

\* whether a glob matches a root-relative path, component by component: "**"
\* stands for any number of leading or inner directories, and as the last
\* component for everything below (at least one component)
RECURSIVE GlobMatch(_, _)
GlobMatch(g, p) ==
  IF g = <<>> THEN p = <<>>
  ELSE IF Head(g) = "**"
       THEN IF Len(g) = 1 THEN p # <<>>
            ELSE GlobMatch(Tail(g), p) \/ (p # <<>> /\ GlobMatch(g, Tail(p)))
       ELSE p # <<>> /\ Head(p) = Head(g) /\ GlobMatch(Tail(g), Tail(p))

Matching(rules, rel) == {i \in 1..Len(rules) : GlobMatch(rules[i].glob, rel)}

\* Override::matched(path, is_dir): the last matching line decides, a "!" line
\* ignoring and a plain line whitelisting; with no match the path is ignored
\* when the set holds a whitelisting line and the path is no directory
OverrideMatched(rules, rel, is_dir) ==
  LET m == Matching(rules, rel)
  IN IF m # {}
     THEN LET last == CHOOSE i \in m : \A j \in m : j <= i
          IN IF rules[last].neg THEN "Ignore" ELSE "Whitelist"
     ELSE IF (\E i \in 1..Len(rules) : ~rules[i].neg) /\ ~is_dir
          THEN "Ignore" ELSE "None"

(* ------------------------------ the walk ------------------------------ *)

IsHidden(rel) == rel # <<>> /\ Head(CompBytes(rel[Len(rel)])) = DOT

\* whether the walker skips one entry: the overrides decide when they match;
\* otherwise the ignore files (when honoured), then the hidden-entry filter
EntrySkipped(rules, a, e, rel, is_dir) ==
  LET o == OverrideMatched(rules, rel, is_dir)
  IN IF o = "Ignore" THEN TRUE
     ELSE IF o = "Whitelist" THEN FALSE
     ELSE \/ (~a.no_gitignore /\ rel \in e.gitignored)
          \/ (a.no_hidden /\ IsHidden(rel))

\* the proper ancestor directories of a root-relative path
Ancestors(rel) == {SubSeq(rel, 1, k) : k \in 1..(Len(rel) - 1)}

\* an entry is reached when the walker skips none of its ancestor directories
Reached(rules, a, e, rel) ==
  \A d \in Ancestors(rel) : ~EntrySkipped(rules, a, e, d, TRUE)

\* what walk.build() yields below the root: every entry of the tree, and every
\* directory leading to one, that is reached and not skipped
Yielded(rules, a, e) ==
  LET entries == DOMAIN e.tree
      dirs == UNION {Ancestors(rel) : rel \in entries}
  IN {rel \in entries : Reached(rules, a, e, rel)
                        /\ ~EntrySkipped(rules, a, e, rel, FALSE)}
     \cup {d \in dirs : Reached(rules, a, e, d) /\ ~EntrySkipped(rules, a, e, d, TRUE)}

EntryKind(e, rel) == IF rel \in DOMAIN e.tree THEN e.tree[rel].kind ELSE "dir"

(* ------------------------- loading and decoding ----------------------- *)

\* read_file_limited: File::open, then at most (max_bytes as u64) + 1 bytes are
\* read and cut back to max_bytes.  The sum is computed in the width of u64: at
\* max_bytes = usize::MAX it panics in a build with overflow checks and wraps to
\* 0 in one without.
read_file_limited(file, max_bytes, overflow_checks) ==
  IF ~file.readable THEN [status |-> "err", bytes |-> <<>>, truncated |-> FALSE]
  ELSE IF max_bytes + 1 > UsizeMax /\ overflow_checks
  THEN [status |-> "panic", bytes |-> <<>>, truncated |-> FALSE]
  ELSE LET limit == (max_bytes + 1) % (2 ^ UsizeBits)
           buf == Take(file.bytes, limit)
           truncated == Len(buf) > max_bytes
       IN [status |-> "ok",
           bytes |-> IF truncated THEN Take(buf, max_bytes) ELSE buf,
           truncated |-> truncated]

\* looks_binary without the 8 KiB window: every byte is inspected
looks_binary_unbounded(bytes) == \E i \in 1..Len(bytes) : bytes[i] = NUL

looks_binary(bytes) ==
  LET n == Min(Len(bytes), BinaryWindow)
  IN \E i \in 1..n : bytes[i] = NUL

LossyNote == "note: contained invalid UTF-8; printed with lossless replacement"

\* bytes_to_text: (Option<String>, Option<&str>), an Option being a sequence of
\* no or one element; a valid string decodes to its characters
bytes_to_text(bytes, strict_utf8) ==
  IF from_utf8_ok(bytes) THEN [text |-> <<from_utf8_lossy(bytes)>>, note |-> <<>>]
  ELSE IF strict_utf8 THEN [text |-> <<>>, note |-> <<>>]
  ELSE [text |-> <<from_utf8_lossy(bytes)>>, note |-> <<LossyNote>>]

\* the fenced block with a newline put after the text whatever it ends in
FencedBodyAlways(text) == text \o <<NL>>

\* what is printed between the opening and the closing fence line
FencedBody(text) ==
  IF text # <<>> /\ text[Len(text)] = NL THEN text ELSE text \o <<NL>>

(* -------------------------------- main -------------------------------- *)

CanonRoot == <<"srv", "proj">>

\* normalize_root: "." for an empty root, canonicalized when that succeeds and
\* left as given when it does not; never an Err
normalize_root(r, e) ==
  LET given == IF r = <<>> THEN <<".">> ELSE r
  IN IF e.root_exists THEN CanonRoot ELSE given

Compiled == build_overrides(args.include_lockfiles, args.exclude, args.include)

\* main, lines 56-62, when a pattern does not compile: main returns the error
\* and nothing has been printed
StartupFail ==
  /\ pc = "start"
  /\ Compiled.err # <<>>
  /\ root' = normalize_root(args.root, env)
  /\ pc' = "failed"
  /\ exit' = "failure"
  /\ diag' = Append(diag, [kind |-> "error", line |-> Compiled.err[1]])
  /\ UNCHANGED <<args, env, overrides, pending, files, doc, idx, loads,
                 printed, skipped_binary, skipped_utf8>>

\* main, lines 56-82: the root, the overrides, the walker and the empty files
Startup ==
  /\ pc = "start"
  /\ Compiled.err = <<>>
  /\ root' = normalize_root(args.root, env)
  /\ overrides' = Compiled.rules
  /\ pending' = IF env.root_exists
                THEN {<<>>} \cup Yielded(Compiled.rules, args, env)
                ELSE {<<>>}
  /\ pc' = "walk"
  /\ UNCHANGED <<args, env, files, doc, diag, idx, loads,
                 printed, skipped_binary, skipped_utf8, exit>>

IsWalkError(rel) ==
  IF rel = <<>> THEN ~env.root_exists ELSE EntryKind(env, rel) = "error"

\* lines 84-90: the walker yields an error, which is reported and passed over
WalkError(rel) ==
  /\ pc = "walk"
  /\ rel \in pending
  /\ IsWalkError(rel)
  /\ diag' = Append(diag, [kind |-> "walk error", path |-> root \o rel])
  /\ pending' = pending \ {rel}
  /\ UNCHANGED <<args, env, pc, root, overrides, files, doc, idx, loads,
                 printed, skipped_binary, skipped_utf8, exit>>

\* lines 92-99: an entry that is no regular file (a directory, a symlink)
WalkSkip(rel) ==
  /\ pc = "walk"
  /\ rel \in pending
  /\ ~IsWalkError(rel)
  /\ (rel = <<>> \/ EntryKind(env, rel) # "file")
  /\ pending' = pending \ {rel}
  /\ UNCHANGED <<args, env, pc, root, overrides, files, doc, diag, idx, loads,
                 printed, skipped_binary, skipped_utf8, exit>>

\* line 101: a regular file
WalkPush(rel) ==
  /\ pc = "walk"
  /\ rel \in pending
  /\ rel # <<>>
  /\ EntryKind(env, rel) = "file"
  /\ files' = Append(files, root \o rel)
  /\ pending' = pending \ {rel}
  /\ UNCHANGED <<args, env, pc, root, overrides, doc, diag, idx, loads,
                 printed, skipped_binary, skipped_utf8, exit>>

\* the files in the order the walk pushed them
Unsorted(s) == s

Sorted(s) == SortPaths(s)

\* lines 104-130: the sort, the title and metadata block, the listing, the
\* separator, and the counters at zero
EmitListing ==
  /\ pc = "walk"
  /\ pending = {}
  /\ files' = Sorted(files)
  /\ doc' = [meta |-> <<[root |-> root,
                         respect_gitignore |-> ~args.no_gitignore,
                         hidden_included |-> ~args.no_hidden,
                         max_bytes |-> args.max_bytes]>>,
             listing |-> [i \in 1..Len(files) |-> rel_path(root, files'[i])],
             segments |-> <<>>]
  /\ idx' = 0
  /\ printed' = 0
  /\ skipped_binary' = 0
  /\ skipped_utf8' = 0
  /\ pc' = "render"
  /\ UNCHANGED <<args, env, root, overrides, pending, diag, loads, exit>>

Current == files[idx + 1]
CurrentRel == rel_path(root, Current)
CurrentRead ==
  read_file_limited(env.tree[CurrentRel], args.max_bytes, env.overflow_checks)

Placeholder(kind, cause) ==
  [path |-> CurrentRel, kind |-> kind, cause |-> cause, truncNote |-> <<>>,
   utf8Note |-> <<>>, lang |-> "", body |-> <<>>]

InLoop == pc = "render" /\ idx < Len(files)

\* line 307 in a build with overflow checks, max_bytes = usize::MAX: the
\* process panics inside the loop
RenderPanic ==
  /\ InLoop
  /\ CurrentRead.status = "panic"
  /\ pc' = "panicked"
  /\ exit' = "panic"
  /\ diag' = Append(diag, [kind |-> "panic", line |-> "attempt to add with overflow"])
  /\ UNCHANGED <<args, env, root, overrides, pending, files, doc, idx, loads,
                 printed, skipped_binary, skipped_utf8>>

\* the read-error branch that prints nothing
ReadErrorSilent == doc.segments

ReadErrorSegments == Append(doc.segments, Placeholder("readerr", <<"io error">>))

\* lines 179-184: the read failed
RenderReadError ==
  /\ InLoop
  /\ CurrentRead.status = "err"
  /\ doc' = [doc EXCEPT !.segments = ReadErrorSegments]
  /\ loads' = Append(loads, CurrentRead)
  /\ idx' = idx + 1
  /\ UNCHANGED <<args, env, pc, root, overrides, pending, files, diag,
                 printed, skipped_binary, skipped_utf8, exit>>

\* lines 138-145: the bytes look binary
RenderBinary ==
  /\ InLoop
  /\ CurrentRead.status = "ok"
  /\ looks_binary(CurrentRead.bytes)
  /\ skipped_binary' = skipped_binary + 1
  /\ doc' = [doc EXCEPT !.segments = Append(@, Placeholder("binary", <<>>))]
  /\ loads' = Append(loads, CurrentRead)
  /\ idx' = idx + 1
  /\ UNCHANGED <<args, env, pc, root, overrides, pending, files, diag,
                 printed, skipped_utf8, exit>>

CurrentText == bytes_to_text(CurrentRead.bytes, args.strict_utf8)

\* lines 147-155: not valid UTF-8, and strict_utf8
RenderUtf8Skip ==
  /\ InLoop
  /\ CurrentRead.status = "ok"
  /\ ~looks_binary(CurrentRead.bytes)
  /\ CurrentText.text = <<>>
  /\ skipped_utf8' = skipped_utf8 + 1
  /\ doc' = [doc EXCEPT !.segments = Append(@, Placeholder("utf8", <<>>))]
  /\ loads' = Append(loads, CurrentRead)
  /\ idx' = idx + 1
  /\ UNCHANGED <<args, env, pc, root, overrides, pending, files, diag,
                 printed, skipped_binary, exit>>

\* a count of printed files that leaves out the lossily decoded ones
PrintedNextValidOnly == IF CurrentText.note # <<>> THEN printed ELSE printed + 1

\* line 177
PrintedNext == printed + 1

\* lines 157-177: a text segment
RenderText ==
  /\ InLoop
  /\ CurrentRead.status = "ok"
  /\ ~looks_binary(CurrentRead.bytes)
  /\ CurrentText.text # <<>>
  /\ doc' = [doc EXCEPT !.segments = Append(@,
               [path |-> CurrentRel, kind |-> "text", cause |-> <<>>,
                truncNote |-> IF CurrentRead.truncated THEN <<args.max_bytes>> ELSE <<>>,
                utf8Note |-> CurrentText.note,
                lang |-> language_tag(Current),
                body |-> FencedBody(CurrentText.text[1])])]
  /\ printed' = PrintedNext
  /\ loads' = Append(loads, CurrentRead)
  /\ idx' = idx + 1
  /\ UNCHANGED <<args, env, pc, root, overrides, pending, files, diag,
                 skipped_binary, skipped_utf8, exit>>

\* lines 188-193: the summary line, and Ok(())
Finish ==
  /\ pc = "render"
  /\ idx = Len(files)
  /\ diag' = Append(diag, [kind |-> "summary", printed |-> printed,
                           skipped_binary |-> skipped_binary,
                           skipped_utf8 |-> skipped_utf8])
  /\ pc' = "done"
  /\ exit' = "success"
  /\ UNCHANGED <<args, env, root, overrides, pending, files, doc, idx, loads,
                 printed, skipped_binary, skipped_utf8>>

Next ==
  \/ StartupFail
  \/ Startup
  \/ \E rel \in pending : WalkError(rel)
  \/ \E rel \in pending : WalkSkip(rel)
  \/ \E rel \in pending : WalkPush(rel)
  \/ EmitListing
  \/ RenderPanic
  \/ RenderReadError
  \/ RenderBinary
  \/ RenderUtf8Skip
  \/ RenderText
  \/ Finish

(* ------------------------------- inputs ------------------------------- *)

File(bytes, readable) == [kind |-> "file", bytes |-> bytes, readable |-> readable]
Other(kind) == [kind |-> kind, bytes |-> <<>>, readable |-> FALSE]

\* the entries a walked tree is made of: text, a two-byte character, a NUL, an
\* unreadable file, a lone continuation byte, a symlink, an entry the walker
\* fails on
Universe ==
  (<<"a", "b">> :> File(<<97, 10>>, TRUE))
  @@ (<<"a-b", "x">> :> File(<<195, 169>>, TRUE))
  @@ (<<"Cargo.lock">> :> File(<<NUL, 97>>, TRUE))
  @@ (<<"secrets", ".env">> :> File(<<97>>, FALSE))
  @@ (<<"venv", "x">> :> File(<<97>>, TRUE))
  @@ (<<"main.RS">> :> File(<<169>>, TRUE))
  @@ (<<"link">> :> Other("symlink"))
  @@ (<<"gone">> :> Other("error"))

Restrict(f, S) == [x \in S |-> f[x]]

PolicyTrees ==
  {Restrict(Universe, S) : S \in {T \in SUBSET DOMAIN Universe : Cardinality(T) <= MaxFiles}}

ExcludeChoices ==
  { <<>>,
    << <<" ", "secrets", "**">> >>,
    << <<"[">> >> }

IncludeChoices ==
  { <<>>,
    << <<"a", "b">> >>,
    << <<"secrets", ".env">>, <<"!", "**", "Cargo.lock">> >> }

\* runs that vary the selection policy and the tree
PolicyRuns ==
  [args : [root : {<<".">>}, max_bytes : {1}, no_gitignore : BOOLEAN,
           no_hidden : BOOLEAN, include_lockfiles : BOOLEAN,
           exclude : ExcludeChoices, include : IncludeChoices,
           strict_utf8 : BOOLEAN],
   env : [tree : PolicyTrees, gitignored : {{<<"main.RS">>}}, root_exists : {TRUE},
          overflow_checks : {TRUE}]]

\* runs that vary one file's content, the cap, the decoding mode and the build
ContentRuns ==
  [args : [root : {<<".">>}, max_bytes : (0..MaxLen) \cup {UsizeMax},
           no_gitignore : {FALSE}, no_hidden : {FALSE}, include_lockfiles : {FALSE},
           exclude : {<<>>}, include : {<<>>}, strict_utf8 : BOOLEAN],
   env : [tree : {(<<"a", "b">> :> File(b, TRUE)) : b \in SeqsUpTo(ByteAlphabet, MaxLen)},
          gitignored : {{}}, root_exists : {TRUE}, overflow_checks : BOOLEAN]]

\* runs on a root that does not exist
MissingRootRuns ==
  [args : [root : {<<>>, <<".">>, <<"gone">>}, max_bytes : {1},
           no_gitignore : {FALSE}, no_hidden : {FALSE}, include_lockfiles : {FALSE},
           exclude : {<<>>, << <<"[">> >>}, include : {<<>>}, strict_utf8 : {FALSE}],
   env : [tree : {<<>>}, gitignored : {{}}, root_exists : {FALSE},
          overflow_checks : {TRUE}]]

Runs == PolicyRuns \cup ContentRuns \cup MissingRootRuns

Init ==
  /\ \E r \in Runs : args = r.args /\ env = r.env
  /\ pc = "start"
  /\ root = <<>>
  /\ overrides = <<>>
  /\ pending = {}
  /\ files = <<>>
  /\ doc = [meta |-> <<>>, listing |-> <<>>, segments |-> <<>>]
  /\ diag = <<>>
  /\ idx = 0
  /\ loads = <<>>
  /\ printed = 0
  /\ skipped_binary = 0
  /\ skipped_utf8 = 0
  /\ exit = "running"

Spec == Init /\ [][Next]_vars

(* ------------------------------- claims ------------------------------- *)

Compiles == pc \notin {"start", "failed"}
Printing == pc \in {"render", "done", "panicked"}
Range(s) == {s[i] : i \in 1..Len(s)}
FileOf(i) == env.tree[doc.listing[i]]
HasNul(b, n) == \E j \in 1..Min(Len(b), n) : b[j] = NUL
EndsInNewline(t) == t # <<>> /\ t[Len(t)] = NL

\* the verdict of the compiled policy on a file path
PolicyIncluded(rel) == OverrideMatched(overrides, rel, FALSE) # "Ignore"

\* the rule list as section 4.1 of the specification orders and reads it:
\* built-in excludes, lockfile excludes, user excludes, user force-includes
UserGlob(pattern) ==
  LET t == Trim(pattern)
  IN GlobOf(IF StartsWithBang(t) THEN Tail(t) ELSE t)

StatedRules ==
  [i \in 1..Len(BuiltinExcludes) |-> [include |-> FALSE, glob |-> BuiltinExcludes[i]]]
  \o (IF args.include_lockfiles THEN <<>>
      ELSE [i \in 1..Len(LockfileExcludes) |->
              [include |-> FALSE, glob |-> LockfileExcludes[i]]])
  \o [i \in 1..Len(args.exclude) |-> [include |-> FALSE, glob |-> UserGlob(args.exclude[i])]]
  \o [i \in 1..Len(args.include) |-> [include |-> TRUE, glob |-> UserGlob(args.include[i])]]

StatedMatching(rel) == {i \in 1..Len(StatedRules) : GlobMatch(StatedRules[i].glob, rel)}

\* C1: for every path, the compiled policy includes it exactly when the last
\* rule matching it, in the order built-in excludes, lockfile excludes, user
\* excludes, user includes, is an include (or no rule matches): a path matched
\* by a user --include pattern is included whatever excludes match it too.
C1_LastMatchingRuleDecides ==
  Compiles =>
    \A rel \in DOMAIN env.tree :
      LET m == StatedMatching(rel)
      IN PolicyIncluded(rel) <=>
           (m = {} \/ StatedRules[CHOOSE i \in m : \A j \in m : j <= i].include)

\* C2: every load that succeeds returns the first min(L, max_bytes) bytes of
\* the file, and truncated exactly when L > max_bytes.
C2_LoadReturnsCappedPrefix ==
  \A i \in 1..Len(loads) :
    loads[i].status = "ok" =>
      LET b == FileOf(i).bytes
      IN /\ loads[i].bytes = Take(b, Min(Len(b), args.max_bytes))
         /\ loads[i].truncated <=> (Len(b) > args.max_bytes)

\* C3: a loaded byte sequence gets the binary-skip segment exactly when a NUL
\* is among its first min(len, window) bytes, whatever strict_utf8 and the other
\* bytes are; a file with no NUL before the window's end and before the
\* max_bytes cut is never binary.
C3_BinaryIffNulInWindow ==
  \A i \in 1..Len(loads) :
    (loads[i].status = "ok" /\ i <= Len(doc.segments)) =>
      /\ (doc.segments[i].kind = "binary") <=> HasNul(loads[i].bytes, BinaryWindow)
      /\ ~HasNul(FileOf(i).bytes, Min(BinaryWindow, args.max_bytes))
           => doc.segments[i].kind # "binary"

\* a binary-skip segment under strict_utf8 for bytes that are not valid UTF-8
C3_Witness ==
  /\ args.strict_utf8
  /\ \E i \in 1..Len(doc.segments) :
       /\ doc.segments[i].kind = "binary"
       /\ ~from_utf8_ok(loads[i].bytes)

C5_StringOrder ==
  Printing =>
    \A i, j \in 1..Len(doc.listing) :
      i < j => BytesLess(PathString(doc.listing[i]), PathString(doc.listing[j]))

\* C5 as amended: the listed paths are the regular files the walk yielded, in
\* the order of their paths compared component by component (each component as
\* its bytes).
C5_ComponentOrder ==
  Printing =>
    /\ \A i, j \in 1..Len(doc.listing) :
         i < j => PathLess(doc.listing[i], doc.listing[j])
    /\ Range(doc.listing) =
         {rel \in Yielded(overrides, args, env) : EntryKind(env, rel) = "file"
                                                  /\ env.root_exists}

\* "a/b" listed before "a-b/x"
C5_Witness ==
  /\ pc = "done"
  /\ doc.listing = << <<"a", "b">>, <<"a-b", "x">> >>

ReadErrors == Cardinality({i \in 1..Len(doc.segments) : doc.segments[i].kind = "readerr"})

\* what one step does to the counters
CounterStep ==
  LET dp == printed' - printed
      db == skipped_binary' - skipped_binary
      du == skipped_utf8' - skipped_utf8
      seg == doc'.segments[idx']
  IN /\ dp >= 0 /\ db >= 0 /\ du >= 0
     /\ idx' = idx => (dp = 0 /\ db = 0 /\ du = 0)
     /\ idx' # idx =>
          /\ idx' = idx + 1
          /\ seg.kind = "text" => <<dp, db, du>> = <<1, 0, 0>>
          /\ seg.kind = "binary" => <<dp, db, du>> = <<0, 1, 0>>
          /\ seg.kind = "utf8" => <<dp, db, du>> = <<0, 0, 1>>
          /\ seg.kind = "readerr" => <<dp, db, du>> = <<0, 0, 0>>

\* C6: the three counters never decrease; dealing with one file adds one to
\* printed (text, lossily decoded text too), or to skipped_binary, or to
\* skipped_utf8, or changes nothing (read error); at the end the counters and
\* the read errors add up to the number of listed files.
C6_CountersAccount ==
  /\ [][CounterStep]_vars
  /\ [](pc = "done" =>
          printed + skipped_binary + skipped_utf8 + ReadErrors = Len(doc.listing))

\* a finished run that printed a lossily decoded file and failed to read another
C6_Witness ==
  /\ pc = "done"
  /\ printed = 1
  /\ ReadErrors = 1
  /\ \E i \in 1..Len(doc.segments) : doc.segments[i].utf8Note # <<>>

\* C7: a file of exactly max_bytes + 1 bytes of valid UTF-8 (here: with no NUL
\* in it, so that it is text) loads with truncated = true and its segment
\* carries the "(truncated to max_bytes bytes)" note, for either strict_utf8.
C7_TruncatedNotePrinted ==
  \A i \in 1..Len(doc.segments) :
    LET b == FileOf(i).bytes
    IN (/\ FileOf(i).readable
        /\ from_utf8_ok(b)
        /\ ~HasNul(b, Len(b))
        /\ Len(b) = args.max_bytes + 1)
       => /\ loads[i].truncated
          /\ doc.segments[i].truncNote = <<args.max_bytes>>

Summarised == \E i \in 1..Len(diag) : diag[i].kind = "summary"

\* C8: the run fails, with nothing printed, exactly when a pattern does not
\* compile (normalize_root has no failing outcome); every other run ends in
\* success, with every listed file dealt with and the summary line written.
C8_OnlyStartupFails ==
  /\ exit = "failure" => (Compiled.err # <<>> /\ doc.meta = <<>>)
  /\ (Compiled.err # <<>> /\ pc # "start") => exit = "failure"
  /\ Compiled.err = <<>> => exit \in {"running", "success"}
  /\ exit = "success" => (Summarised /\ Len(doc.segments) = Len(doc.listing))

\* C9: a path that no compiled rule matches is included by the policy, whatever
\* include_lockfiles, the excludes and the includes are; and a regular file that
\* no rule and no other filter of the walk keeps out, itself or a directory
\* above it, is listed.
C9_UnmatchedIsIncluded ==
  Compiles =>
    \A rel \in DOMAIN env.tree :
      Matching(overrides, rel) = {} =>
        /\ PolicyIncluded(rel)
        /\ (/\ Printing
            /\ env.tree[rel].kind = "file"
            /\ \A d \in Ancestors(rel) : Matching(overrides, d) = {}
            /\ \A d \in Ancestors(rel) \cup {rel} :
                 /\ ~(args.no_hidden /\ IsHidden(d))
                 /\ ~(~args.no_gitignore /\ d \in env.gitignored))
           => rel \in Range(doc.listing)

\* a listed file that no rule matches, in a run given --include patterns
C9_Witness ==
  /\ pc = "done"
  /\ args.include # <<>>
  /\ \E rel \in Range(doc.listing) : Matching(overrides, rel) = {}

\* C10: in a text segment the fenced block is the decoded text, followed by one
\* newline when the text does not end in one (empty text too) and by nothing
\* when it does.
C10_OneNewlineBeforeFence ==
  \A i \in 1..Len(doc.segments) :
    doc.segments[i].kind = "text" =>
      LET text == bytes_to_text(loads[i].bytes, args.strict_utf8).text[1]
          body == doc.segments[i].body
      IN /\ Take(body, Len(text)) = text
         /\ Len(body) = Len(text) + (IF EndsInNewline(text) THEN 0 ELSE 1)
         /\ body[Len(body)] = NL

\* a file cut to 0 bytes: the block is the one newline
C10_Witness ==
  \E i \in 1..Len(doc.segments) :
    /\ doc.segments[i].kind = "text"
    /\ loads[i].truncated
    /\ loads[i].bytes = <<>>
    /\ doc.segments[i].body = <<NL>>

====
